---- MODULE Spec2Model ----
(***************************************************************************)
(* The client-side message synchronisation engine of the chat room hook    *)
(* (useChatRoom, src/unnamed/part_000) and its reaction coordinator        *)
(* (useReactionHandling.js).                                               *)
(*                                                                         *)
(* Every handler is an operator from a state record to a state record, so  *)
(* that a transport event can be delivered to every registered copy of     *)
(* its listener; an action commits the record a handler returns.           *)
(* React state (messages, error, ...) is modelled by its current value;    *)
(* `rendered` is the value of `messages` that the callbacks of the last    *)
(* render closed over, refreshed by the Render action.                     *)
(***************************************************************************)
EXTENDS Integers, Sequences, FiniteSets, TLC

\* ------------------------------------------------------------- bounds
NumMsgs == 3          \* message ids 1..NumMsgs
MaxBatch == 2         \* longest history batch
MaxListeners == 2     \* most registrations of one event kind
NumReactMsgs == 2     \* message ids of the reaction specification
NumTargets == 1       \* message ids the user reacts to
NumReadMsgs == 2      \* message ids of the read-receipt specification
NumReadTimes == 2     \* read-receipt timestamps
MaxSetupRoomCalls == 2  \* most setupRoom() promises in flight
MaxSubmitCalls == 2   \* most submit() promises in flight
MaxFiles == 1         \* most files attached to the input
TickMs == 350         \* the clock advances by this many milliseconds
MaxTicks == 4         \* how often the clock advances

\* ------------------------------------------------------------- data
NoId == 0
NoTimestamp == -1
MsgIds == 1..NumMsgs

CurrentUser == "u1"
Users == {"u1", "u2"}
Symbols == {"thumbs", "heart"}

NoRoom == "none"
TheRoom == "room1"

\* reactions: a function from a subset of Symbols to a sequence of users
EmptyReactions == [s \in {} |-> <<>>]

\* The timestamp the server stamps on message i; it does not change when the
\* message is delivered again.  Messages 2 and 3 carry none.
TimestampOf(i) == IF i = 1 THEN 2 ELSE IF i \in {2, 3} THEN NoTimestamp ELSE 1

Msg(i, r, rd) == [_id |-> i, timestamp |-> TimestampOf(i), reactions |-> r, readers |-> rd]

\* the object literal {} of the rollback fallback
EmptyObject == [_id |-> NoId, timestamp |-> NoTimestamp, reactions |-> EmptyReactions, readers |-> <<>>]

\* new Date(msg.timestamp || 0)
SortKey(m) == IF m.timestamp = NoTimestamp THEN 0 ELSE m.timestamp

Ids(seq) == {seq[i]._id : i \in DOMAIN seq}

\* ------------------------------------------------------------- state
VARIABLES
  messages,               \* useState: the Message Store
  rendered,               \* `messages` as closed over by the callbacks of the last render
  touched,                \* ids whose store object was created after the last render
  processedMessageIds,    \* useRef(new Set()): the Seen-ID Set
  hasMoreMessages,
  error,
  loading,
  loadingMessages,
  initialLoadCompletedRef,
  mountedRef,
  roomId,
  socketConnected,        \* socketRef.current.connected
  listeners,              \* registrations of each live-event kind on the socket
  listenerMessagesEmpty,  \* messages.length === 0 as closed over by the registered listeners
  connectionStatus,
  setupCompleteRef,
  socketInitializedRef,
  initializingRef,
  isInitialized,
  messageProcessingRef,
  cleanupInProgressRef,
  setupRoomCalls,         \* the setupRoom() promises not yet settled, by the caller of each
  submitLockRef,          \* ChatInput: useRef(false)
  lastSubmitRef,          \* ChatInput: the last submission recorded
  inputValue,             \* ChatInput: messageInputRef.current.value
  files,                  \* ChatInput: useState([]), the names of the attached files
  now,                    \* Date.now()
  submitCalls,            \* ChatInput: the submit() promises not yet settled
  effects,                \* what the last handler emitted or called, in order
  storeReplaced,          \* the last handler gave `messages` a new array
  last                    \* the last handler that ran

vars == <<messages, rendered, touched, processedMessageIds, hasMoreMessages, error,
          loading, loadingMessages, initialLoadCompletedRef, mountedRef, roomId,
          socketConnected, listeners, listenerMessagesEmpty, connectionStatus,
          setupCompleteRef, socketInitializedRef, initializingRef, isInitialized,
          messageProcessingRef, cleanupInProgressRef, setupRoomCalls, submitLockRef,
          lastSubmitRef, inputValue, files, now, submitCalls, effects, storeReplaced,
          last>>

\* the state of the hook and the state of the input component
hookVars == <<messages, rendered, touched, processedMessageIds, hasMoreMessages, error,
              loading, loadingMessages, initialLoadCompletedRef, mountedRef, roomId,
              socketConnected, listeners, listenerMessagesEmpty, connectionStatus,
              setupCompleteRef, socketInitializedRef, initializingRef, isInitialized,
              messageProcessingRef, cleanupInProgressRef, setupRoomCalls>>

inputVars == <<submitLockRef, lastSubmitRef, inputValue, files, now, submitCalls>>

\* the state as a record, with the per-handler observations reset
Cur ==
  [messages |-> messages, rendered |-> rendered, touched |-> touched,
   processedMessageIds |-> processedMessageIds, hasMoreMessages |-> hasMoreMessages,
   error |-> error, loading |-> loading, loadingMessages |-> loadingMessages,
   initialLoadCompletedRef |-> initialLoadCompletedRef, mountedRef |-> mountedRef,
   roomId |-> roomId, socketConnected |-> socketConnected, listeners |-> listeners,
   listenerMessagesEmpty |-> listenerMessagesEmpty, connectionStatus |-> connectionStatus,
   setupCompleteRef |-> setupCompleteRef, socketInitializedRef |-> socketInitializedRef,
   initializingRef |-> initializingRef, isInitialized |-> isInitialized,
   messageProcessingRef |-> messageProcessingRef,
   cleanupInProgressRef |-> cleanupInProgressRef,
   setupRoomCalls |-> setupRoomCalls,
   effects |-> <<>>, storeReplaced |-> FALSE]

Commit(s, op) ==
  /\ messages' = s.messages
  /\ rendered' = s.rendered
  /\ touched' = s.touched
  /\ processedMessageIds' = s.processedMessageIds
  /\ hasMoreMessages' = s.hasMoreMessages
  /\ error' = s.error
  /\ loading' = s.loading
  /\ loadingMessages' = s.loadingMessages
  /\ initialLoadCompletedRef' = s.initialLoadCompletedRef
  /\ mountedRef' = s.mountedRef
  /\ roomId' = s.roomId
  /\ socketConnected' = s.socketConnected
  /\ listeners' = s.listeners
  /\ listenerMessagesEmpty' = s.listenerMessagesEmpty
  /\ connectionStatus' = s.connectionStatus
  /\ setupCompleteRef' = s.setupCompleteRef
  /\ socketInitializedRef' = s.socketInitializedRef
  /\ initializingRef' = s.initializingRef
  /\ isInitialized' = s.isInitialized
  /\ messageProcessingRef' = s.messageProcessingRef
  /\ cleanupInProgressRef' = s.cleanupInProgressRef
  /\ setupRoomCalls' = s.setupRoomCalls
  /\ UNCHANGED inputVars
  /\ effects' = s.effects
  /\ storeReplaced' = s.storeReplaced
  /\ last' = op

\* ------------------------------------------------------------- setMessages
\* setMessages(updater) where the updater returned a new array
SetMessages(s, new, newIds) ==
  [s EXCEPT !.messages = new, !.storeReplaced = TRUE,
            !.touched = (s.touched \cup newIds) \cap Ids(new)]

\* ------------------------------------------------------------- admission
\* loadedMessages.filter(...): the accepted candidates and the Seen-ID Set after it
RECURSIVE FilterNew(_, _)
FilterNew(loaded, seen) ==
  IF loaded = <<>> THEN [accepted |-> <<>>, seen |-> seen]
  ELSE LET m == Head(loaded)
           ok == m._id # NoId /\ m._id \notin seen
           rest == FilterNew(Tail(loaded), IF ok THEN seen \cup {m._id} ELSE seen)
       IN [accepted |-> IF ok THEN <<m>> \o rest.accepted ELSE rest.accepted,
           seen |-> rest.seen]

\* a faulty variant: a sort that puts a message before the messages of equal timestamp
InsertSortedBeforeTies(sorted, m) ==
  LET k == Cardinality({i \in DOMAIN sorted : SortKey(sorted[i]) < SortKey(m)})
  IN SubSeq(sorted, 1, k) \o <<m>> \o SubSeq(sorted, k + 1, Len(sorted))

\* Array.prototype.sort with the timestamp comparator (a stable sort)
InsertSorted(sorted, m) ==
  LET k == Cardinality({i \in DOMAIN sorted : SortKey(sorted[i]) <= SortKey(m)})
  IN SubSeq(sorted, 1, k) \o <<m>> \o SubSeq(sorted, k + 1, Len(sorted))

RECURSIVE SortByTimestamp(_)
SortByTimestamp(seq) ==
  IF seq = <<>> THEN <<>>
  ELSE InsertSorted(SortByTimestamp(SubSeq(seq, 1, Len(seq) - 1)), seq[Len(seq)])

\* map.set(msg._id, msg): a key keeps its first position and takes the last value
MapSet(entries, m) ==
  IF \E i \in DOMAIN entries : entries[i]._id = m._id
  THEN [i \in DOMAIN entries |-> IF entries[i]._id = m._id THEN m ELSE entries[i]]
  ELSE Append(entries, m)

\* a faulty variant: the pass that collapses by id is missing
DedupByIdNone(seq) == seq

RECURSIVE DedupById(_)
DedupById(seq) ==
  IF seq = <<>> THEN <<>>
  ELSE MapSet(DedupById(SubSeq(seq, 1, Len(seq) - 1)), seq[Len(seq)])

\* processMessages(loadedMessages, hasMore, isInitialLoad), loadedMessages an array
ProcessMessages(s, loaded, hasMore, isInitialLoad) ==
  LET f == FilterNew(loaded, s.processedMessageIds)
      all == SortByTimestamp(s.messages \o f.accepted)
      s1 == SetMessages([s EXCEPT !.processedMessageIds = f.seen],
                        DedupById(all), Ids(f.accepted))
  IN [s1 EXCEPT !.hasMoreMessages = hasMore,
                !.initialLoadCompletedRef = IF isInitialLoad THEN TRUE ELSE @]

\* socket.on("message", ...)
OnMessage(s, m) ==
  IF ~s.mountedRef \/ s.messageProcessingRef \/ m._id = NoId THEN s
  ELSE IF m._id \in s.processedMessageIds THEN s
  ELSE LET s1 == [s EXCEPT !.processedMessageIds = @ \cup {m._id}]
       IN IF m._id \in Ids(s1.messages) THEN s1
          ELSE SetMessages(s1, Append(s1.messages, m), {m._id})

\* socket.on("previousMessages" / "previousMessagesLoaded", handlePreviousMessages)
\* response.kind: "ok" (an object whose messages is an array), "notArray" (an object
\* whose messages is not an array), "notObject"
ErrProcessing == "message-processing-failed"

\* a faulty variant: the guard is not released when the payload is malformed
HandlePreviousMessagesHeld(s, response) ==
  IF ~s.mountedRef \/ s.messageProcessingRef THEN s
  ELSE IF response.kind = "ok"
  THEN [ProcessMessages(s, response.messages, response.hasMore, s.listenerMessagesEmpty)
          EXCEPT !.loadingMessages = FALSE, !.messageProcessingRef = FALSE]
  ELSE [s EXCEPT !.loadingMessages = FALSE, !.error = ErrProcessing,
                 !.hasMoreMessages = FALSE, !.messageProcessingRef = TRUE]

HandlePreviousMessages(s, response) ==
  IF ~s.mountedRef \/ s.messageProcessingRef THEN s
  ELSE LET done ==
             IF response.kind = "ok"
             THEN [ProcessMessages(s, response.messages, response.hasMore,
                                   s.listenerMessagesEmpty)
                     EXCEPT !.loadingMessages = FALSE]
             ELSE [s EXCEPT !.loadingMessages = FALSE, !.error = ErrProcessing,
                            !.hasMoreMessages = FALSE]
       IN [done EXCEPT !.messageProcessingRef = FALSE]

\* socket.on("messagesRead", ...)
HasReader(m, userId) == \E i \in DOMAIN m.readers : m.readers[i].userId = userId

\* a faulty variant: the alreadyRead test is missing
MarkReadAgain(m, userId, messageIds, timestamp) ==
  IF m._id \notin messageIds THEN m
  ELSE [m EXCEPT !.readers = Append(@, [userId |-> userId, readAt |-> timestamp])]

MarkRead(m, userId, messageIds, timestamp) ==
  IF m._id \notin messageIds THEN m
  ELSE IF HasReader(m, userId) THEN m
  ELSE [m EXCEPT !.readers = Append(@, [userId |-> userId, readAt |-> timestamp])]

OnMessagesRead(s, userId, messageIds, timestamp) ==
  IF ~s.mountedRef THEN s
  ELSE LET new == [i \in DOMAIN s.messages |->
                     MarkRead(s.messages[i], userId, messageIds, timestamp)]
       IN SetMessages(s, new, {new[i]._id : i \in {j \in DOMAIN new : new[j] # s.messages[j]}})

\* ------------------------------------------------------------- reactions
\* what the last handler emitted on the socket or called on a collaborator
Emit(name, messageId, reaction, type) ==
  [kind |-> "emit", name |-> name, messageId |-> messageId, reaction |-> reaction, type |-> type]
Call(name) ==
  [kind |-> "call", name |-> name, messageId |-> NoId, reaction |-> "", type |-> ""]

Do(s, e) == [s EXCEPT !.effects = Append(@, e)]

Range(seq) == {seq[i] : i \in DOMAIN seq}

UsersOf(m, reaction) ==
  IF reaction \in DOMAIN m.reactions THEN m.reactions[reaction] ELSE <<>>

\* {...currentReactions, [reaction]: users}
WithReaction(m, reaction, users) ==
  [m EXCEPT !.reactions = [x \in (DOMAIN m.reactions) \cup {reaction} |->
                             IF x = reaction THEN users ELSE m.reactions[x]]]

\* the three results of an updater: the object it was given, a new object, or the
\* object of that id found in the `messages` of the last render
Same(m) == [msg |-> m, same |-> TRUE, snapshot |-> FALSE]
Fresh(m) == [msg |-> m, same |-> FALSE, snapshot |-> FALSE]

FirstIndex(seq, messageId) ==
  CHOOSE i \in DOMAIN seq :
    seq[i]._id = messageId /\ \A j \in 1..(i - 1) : seq[j]._id # messageId

\* a faulty variant: the updater returns a copy where it should return the object given
AddUpdaterCopy(m, reaction) ==
  IF CurrentUser \in Range(UsersOf(m, reaction)) THEN Fresh(m)
  ELSE Fresh(WithReaction(m, reaction, Append(UsersOf(m, reaction), CurrentUser)))

\* the updater of handleReactionAdd
AddUpdater(m, reaction) ==
  IF CurrentUser \in Range(UsersOf(m, reaction)) THEN Same(m)
  ELSE Fresh(WithReaction(m, reaction, Append(UsersOf(m, reaction), CurrentUser)))

\* a faulty variant: the user is filtered out of every symbol's set
RemoveUpdaterAll(m, reaction) ==
  Fresh([m EXCEPT !.reactions =
           [x \in (DOMAIN m.reactions) \cup {reaction} |->
              SelectSeq(UsersOf(m, x), LAMBDA u : u # CurrentUser)]])

\* the updater of handleReactionRemove
RemoveUpdater(m, reaction) ==
  Fresh(WithReaction(m, reaction, SelectSeq(UsersOf(m, reaction), LAMBDA u : u # CurrentUser)))

\* a faulty variant: the delivered map is merged into the local one
ReactionUpdaterMerge(m, reactions) ==
  Fresh([m EXCEPT !.reactions =
           [x \in (DOMAIN m.reactions) \cup (DOMAIN reactions) |->
              IF x \in DOMAIN reactions THEN reactions[x] ELSE m.reactions[x]]])

\* the updater of handleReactionUpdate: (msg) => ({...msg, reactions})
ReactionUpdater(m, reactions) == Fresh([m EXCEPT !.reactions = reactions])

\* () => messages.find((m) => m._id === messageId) || {}
\* The object found is the one in the store when the store's object of that id has
\* not been replaced since the render.
RollbackUpdater(closure, messageId) ==
  IF messageId \in Ids(closure.rendered)
  THEN [msg |-> closure.rendered[FirstIndex(closure.rendered, messageId)],
        same |-> messageId \notin closure.touched, snapshot |-> TRUE]
  ELSE Fresh(EmptyObject)

\* the updaters handed to updateSingleMessage
AddWith(reaction) == [kind |-> "add", reaction |-> reaction]
RemoveWith(reaction) == [kind |-> "remove", reaction |-> reaction]
UpdateWith(reactions) == [kind |-> "update", reactions |-> reactions]
RollbackWith(closure, messageId) ==
  [kind |-> "rollback", closure |-> closure, messageId |-> messageId]

\* updater(oldMessage)
ApplyUpdater(updater, m) ==
  CASE updater.kind = "add" -> AddUpdater(m, updater.reaction)
    [] updater.kind = "remove" -> RemoveUpdater(m, updater.reaction)
    [] updater.kind = "update" -> ReactionUpdater(m, updater.reactions)
    [] updater.kind = "rollback" -> RollbackUpdater(updater.closure, updater.messageId)

\* updateSingleMessage(messageId, updater)
UpdateSingleMessage(s, messageId, updater) ==
  IF messageId \notin Ids(s.messages) THEN s
  ELSE LET index == FirstIndex(s.messages, messageId)
           u == ApplyUpdater(updater, s.messages[index])
           new == [s.messages EXCEPT ![index] = u.msg]
       IN IF u.same THEN s
          ELSE [s EXCEPT !.messages = new, !.storeReplaced = TRUE,
                         !.touched = IF u.snapshot THEN @ \ {messageId}
                                     ELSE (@ \cup {messageId}) \cap Ids(new)]

\* the catch block: Toast.error, then the rollback
Rollback(s, messageId) ==
  UpdateSingleMessage(Do(s, Call("Toast.error")), messageId,
                      RollbackWith([rendered |-> s.rendered, touched |-> s.touched], messageId))

\* handleReactionAdd(messageId, reaction); emitOk: socket.emit returns normally
HandleReactionAdd(s, messageId, reaction, emitOk) ==
  IF ~s.socketConnected THEN Rollback(s, messageId)
  ELSE LET s1 == UpdateSingleMessage(s, messageId, AddWith(reaction))
       IN IF emitOk THEN Do(s1, Emit("messageReaction", messageId, reaction, "add"))
          ELSE Rollback(s1, messageId)

\* handleReactionRemove(messageId, reaction)
HandleReactionRemove(s, messageId, reaction, emitOk) ==
  IF ~s.socketConnected THEN Rollback(s, messageId)
  ELSE LET s1 == UpdateSingleMessage(s, messageId, RemoveWith(reaction))
       IN IF emitOk THEN Do(s1, Emit("messageReaction", messageId, reaction, "remove"))
          ELSE Rollback(s1, messageId)

\* handleReactionUpdate({messageId, reactions})
HandleReactionUpdate(s, messageId, reactions) ==
  UpdateSingleMessage(s, messageId, UpdateWith(reactions))

\* socket.on("messageReactionUpdate", ...)
OnMessageReactionUpdate(s, messageId, reactions) ==
  IF ~s.mountedRef THEN s ELSE HandleReactionUpdate(s, messageId, reactions)

\* ------------------------------------------------------------- lifecycle
CLEANUP_REASONS ==
  [DISCONNECT |-> "disconnect", MANUAL |-> "manual", RECONNECT |-> "reconnect",
   UNMOUNT |-> "unmount", ERROR |-> "error"]

\* what a caller passes to cleanup(reason = "MANUAL"): a value of CLEANUP_REASONS,
\* or nothing (the default "MANUAL", as the session_ended handler does)
CleanupArgs ==
  {CLEANUP_REASONS.DISCONNECT, CLEANUP_REASONS.MANUAL, CLEANUP_REASONS.RECONNECT,
   CLEANUP_REASONS.UNMOUNT, CLEANUP_REASONS.ERROR, "MANUAL"}

NoError == ""
NullError == "null"
ErrConnectionLost == "connection-lost-retrying"
ErrSocket == "socket-error"

\* cleanup(reason).  The return taken when the guard is set is inside the try, so
\* the finally block runs for it too and clears the guard.
Cleanup(s, reason) ==
  IF ~s.mountedRef \/ s.roomId = NoRoom THEN s
  ELSE IF s.cleanupInProgressRef THEN [s EXCEPT !.cleanupInProgressRef = FALSE]
  ELSE LET s1 == IF s.socketConnected THEN Do(s, Emit("leaveRoom", NoId, "", "")) ELSE s
           s2 == IF reason # "RECONNECT" THEN [s1 EXCEPT !.listeners = 0] ELSE s1
           s3 == [s2 EXCEPT !.processedMessageIds = {}, !.messageProcessingRef = FALSE]
           s4 == IF reason = "MANUAL"
                 THEN SetMessages([s3 EXCEPT !.error = NullError, !.loading = FALSE,
                                             !.loadingMessages = FALSE], <<>>, {})
                 ELSE IF reason = "DISCONNECT"
                 THEN [s3 EXCEPT !.error = ErrConnectionLost]
                 ELSE s3
       IN [s4 EXCEPT !.cleanupInProgressRef = FALSE]

\* loadInitialMessages(roomId) of useRoomHandling: re-issues the initial load
LoadInitialMessages(s) == Do(s, Call("loadInitialMessages"))

\* retryMessageLoad()
RetryMessageLoad(s) ==
  IF ~s.mountedRef \/ s.roomId = NoRoom THEN s
  ELSE LoadInitialMessages([s EXCEPT !.processedMessageIds = {},
                                     !.initialLoadCompletedRef = FALSE])

\* setupEventListeners(): each socket.on adds a listener.  The handlers close over
\* the `messages` of the render that created the callback: the first render (an
\* empty store) when empty = TRUE, the last render otherwise.
SetupEventListeners(s, empty) ==
  IF ~s.mountedRef THEN s
  ELSE [s EXCEPT !.listeners = @ + 1,
                 !.listenerMessagesEmpty = IF empty THEN TRUE ELSE s.rendered = <<>>]

\* a faulty variant: cleanup is given the value of CLEANUP_REASONS
OnSessionEndedManualValue(s) ==
  IF ~s.mountedRef THEN s
  ELSE Do(Do(Cleanup(s, CLEANUP_REASONS.MANUAL), Call("logout")), Call("router.replace"))

\* socket.on("session_ended", ...)
OnSessionEnded(s) ==
  IF ~s.mountedRef THEN s
  ELSE Do(Do(Cleanup(s, "MANUAL"), Call("logout")), Call("router.replace"))

\* socket.on("error", ...); rejected: err.code === "MESSAGE_REJECTED"
OnSocketError(s, rejected) ==
  IF ~s.mountedRef THEN s
  ELSE IF rejected THEN Do(s, Call("Toast.error"))
  ELSE [s EXCEPT !.error = ErrSocket]

\* handleConnect, run when the socket has connected
HandleConnect(s) ==
  IF ~s.mountedRef THEN s
  ELSE LET s1 == [s EXCEPT !.connectionStatus = "connected"]
       IN IF /\ s1.roomId # NoRoom
             /\ ~s1.setupCompleteRef
             /\ ~s1.initializingRef
             /\ ~s1.isInitialized
          THEN Do([s1 EXCEPT !.socketInitializedRef = TRUE], Call("setupRoom"))
          ELSE s1

\* handleDisconnect
HandleDisconnect(s) ==
  IF ~s.mountedRef THEN s
  ELSE [s EXCEPT !.connectionStatus = "disconnected", !.socketInitializedRef = FALSE,
                 !.setupCompleteRef = FALSE]

\* a faulty variant: the error is left as it is
HandleReconnectSuccessKeepError(s) ==
  IF ~s.mountedRef THEN s
  ELSE LET s1 == [s EXCEPT !.connectionStatus = "connected"]
       IN IF s1.roomId # NoRoom THEN Do(s1, Call("setupRoom")) ELSE s1

\* handleReconnectSuccess
HandleReconnectSuccess(s) ==
  IF ~s.mountedRef THEN s
  ELSE LET s1 == [s EXCEPT !.connectionStatus = "connected", !.error = NoError]
       IN IF s1.roomId # NoRoom THEN Do(s1, Call("setupRoom")) ELSE s1

\* the teardown of the mount effect
UnmountTeardown(s) ==
  LET s1 == [s EXCEPT !.mountedRef = FALSE]
  IN IF s1.socketConnected /\ s1.roomId # NoRoom /\ ~s1.cleanupInProgressRef
     THEN Cleanup(s1, CLEANUP_REASONS.UNMOUNT)
     ELSE s1

\* initializeChat(), up to its await; authUser is present
InitializeChat(s) ==
  IF s.initializingRef THEN s
  ELSE IF ~s.isInitialized /\ s.roomId # NoRoom
  THEN Do([s EXCEPT !.initializingRef = TRUE], Call("setupRoom"))
  ELSE s

\* the body of the mount effect.  When the effect runs again its teardown runs
\* first: that sets mountedRef to false, so its cleanup(UNMOUNT) returns at once.
MountEffect(s) ==
  LET s1 == [s EXCEPT !.mountedRef = TRUE]
  IN IF s1.roomId # NoRoom THEN InitializeChat(s1) ELSE s1

\* a handler that called setupRoom() leaves a promise in flight
SetupRoomCallers == {"mount", "connect", "reconnect"}

CallsSetupRoom(s) == \E k \in DOMAIN s.effects : s.effects[k] = Call("setupRoom")

Started(s, caller) ==
  IF CallsSetupRoom(s) THEN [s EXCEPT !.setupRoomCalls = Append(@, caller)] ELSE s

ErrInitFailed == "init-failed"
ErrConnectFailed == "connect-failed"
ErrReconnectFailed == "reconnect-failed"

\* setupRoom() of useRoomHandling succeeds: the controller is Ready, the listeners
\* are registered and the initial load is issued
SetupRoomDone(s, fresh) ==
  IF ~s.mountedRef THEN s
  ELSE LoadInitialMessages(
         SetupEventListeners([s EXCEPT !.isInitialized = TRUE, !.setupCompleteRef = TRUE],
                             ~fresh))

\* what the caller runs when its setupRoom() settles: nothing more on success but
\* the finally of initializeChat; on rejection the catch of the caller
AfterSetupRoom(s, caller, ok) ==
  LET s1 == IF ok THEN s
            ELSE [s EXCEPT !.error = CASE caller = "mount" -> ErrInitFailed
                                       [] caller = "connect" -> ErrConnectFailed
                                       [] caller = "reconnect" -> ErrReconnectFailed]
  IN IF caller = "mount" THEN [s1 EXCEPT !.initializingRef = FALSE] ELSE s1

RemoveAt(seq, k) == SubSeq(seq, 1, k - 1) \o SubSeq(seq, k + 1, Len(seq))

\* ------------------------------------------------------------- ChatInput
DuplicateWindowMs == 700

\* String.prototype.trim on a text given as its characters
RECURSIVE TrimStart(_)
TrimStart(v) == IF v # <<>> /\ Head(v) = " " THEN TrimStart(Tail(v)) ELSE v

RECURSIVE TrimEnd(_)
TrimEnd(v) ==
  IF v # <<>> /\ v[Len(v)] = " " THEN TrimEnd(SubSeq(v, 1, Len(v) - 1)) ELSE v

Trim(v) == TrimEnd(TrimStart(v))

NoFileName == ""

\* useRef({type: null, content: null, fileName: null, time: 0})
NoSubmit == [type |-> "null", content |-> <<>>, fileName |-> NoFileName, time |-> 0]

\* the state of the input as a record
InputCur ==
  [submitLockRef |-> submitLockRef, lastSubmitRef |-> lastSubmitRef,
   inputValue |-> inputValue, files |-> files, now |-> now, submitCalls |-> submitCalls]

\* submit(payload) is called and its promise awaited
Dispatch(s, payload) == [s EXCEPT !.submitCalls = Append(@, payload)]

\* a faulty variant: the lock is not tested
HandleSubmitUnlocked(s) ==
  LET text == Trim(s.inputValue)
      l == s.lastSubmitRef
  IN IF s.files # <<>>
     THEN IF l.type = "file" /\ l.fileName = s.files[1]
             /\ s.now - l.time < DuplicateWindowMs
          THEN [s EXCEPT !.submitLockRef = FALSE]
          ELSE Dispatch([s EXCEPT !.submitLockRef = TRUE,
                                  !.lastSubmitRef = [type |-> "file", content |-> text,
                                                     fileName |-> s.files[1],
                                                     time |-> s.now]],
                        [type |-> "file", content |-> text, fileData |-> s.files[1]])
     ELSE IF text # <<>>
     THEN IF l.type = "text" /\ l.content = text /\ s.now - l.time < DuplicateWindowMs
          THEN [s EXCEPT !.submitLockRef = FALSE]
          ELSE Dispatch([s EXCEPT !.submitLockRef = TRUE,
                                  !.lastSubmitRef = [type |-> "text", content |-> text,
                                                     fileName |-> NoFileName,
                                                     time |-> s.now]],
                        [type |-> "text", content |-> text, fileData |-> NoFileName])
     ELSE [s EXCEPT !.submitLockRef = FALSE]

\* a faulty variant: a submission exactly DuplicateWindowMs after the recorded one
\* still counts as a duplicate
HandleSubmitInclusive(s) ==
  IF s.submitLockRef THEN s
  ELSE LET text == Trim(s.inputValue)
           l == s.lastSubmitRef
       IN IF s.files # <<>>
          THEN IF l.type = "file" /\ l.fileName = s.files[1]
                  /\ s.now - l.time <= DuplicateWindowMs
               THEN [s EXCEPT !.submitLockRef = FALSE]
               ELSE Dispatch([s EXCEPT !.submitLockRef = TRUE,
                                       !.lastSubmitRef = [type |-> "file", content |-> text,
                                                          fileName |-> s.files[1],
                                                          time |-> s.now]],
                             [type |-> "file", content |-> text, fileData |-> s.files[1]])
          ELSE IF text # <<>>
          THEN IF l.type = "text" /\ l.content = text
                  /\ s.now - l.time <= DuplicateWindowMs
               THEN [s EXCEPT !.submitLockRef = FALSE]
               ELSE Dispatch([s EXCEPT !.submitLockRef = TRUE,
                                       !.lastSubmitRef = [type |-> "text", content |-> text,
                                                          fileName |-> NoFileName,
                                                          time |-> s.now]],
                             [type |-> "text", content |-> text, fileData |-> NoFileName])
          ELSE [s EXCEPT !.submitLockRef = FALSE]

\* handleSubmit(), up to its await.  On the paths that return without awaiting,
\* the finally block has released the lock.
HandleSubmit(s) ==
  IF s.submitLockRef THEN s
  ELSE LET text == Trim(s.inputValue)
           l == s.lastSubmitRef
       IN IF s.files # <<>>
          THEN IF l.type = "file" /\ l.fileName = s.files[1]
                  /\ s.now - l.time < DuplicateWindowMs
               THEN [s EXCEPT !.submitLockRef = FALSE]
               ELSE Dispatch([s EXCEPT !.submitLockRef = TRUE,
                                       !.lastSubmitRef = [type |-> "file", content |-> text,
                                                          fileName |-> s.files[1],
                                                          time |-> s.now]],
                             [type |-> "file", content |-> text, fileData |-> s.files[1]])
          ELSE IF text # <<>>
          THEN IF l.type = "text" /\ l.content = text
                  /\ s.now - l.time < DuplicateWindowMs
               THEN [s EXCEPT !.submitLockRef = FALSE]
               ELSE Dispatch([s EXCEPT !.submitLockRef = TRUE,
                                       !.lastSubmitRef = [type |-> "text", content |-> text,
                                                          fileName |-> NoFileName,
                                                          time |-> s.now]],
                             [type |-> "text", content |-> text, fileData |-> NoFileName])
          ELSE [s EXCEPT !.submitLockRef = FALSE]

\* a faulty variant: the lock is released after the input is cleared, with no
\* finally block
AfterSubmitNoFinally(s, k, ok) ==
  LET call == s.submitCalls[k]
      s1 == [s EXCEPT !.submitCalls = RemoveAt(@, k)]
  IN IF ~ok THEN s1
     ELSE IF call.type = "file"
     THEN [s1 EXCEPT !.inputValue = <<>>, !.files = <<>>, !.submitLockRef = FALSE]
     ELSE [s1 EXCEPT !.inputValue = <<>>, !.submitLockRef = FALSE]

\* handleSubmit() after its await: the k-th submit() in flight settles; the input
\* is cleared when it resolved, and the finally block releases the lock
AfterSubmit(s, k, ok) ==
  LET call == s.submitCalls[k]
      s1 == [s EXCEPT !.submitCalls = RemoveAt(@, k)]
      s2 == IF ~ok THEN s1
            ELSE IF call.type = "file" THEN [s1 EXCEPT !.inputValue = <<>>, !.files = <<>>]
            ELSE [s1 EXCEPT !.inputValue = <<>>]
  IN [s2 EXCEPT !.submitLockRef = FALSE]

\* ------------------------------------------------------------- inputs
\* the last handler: its name, the message id and argument it was given, and
\* `hit`, what it found in the state it started from (stated at each action)
\* the events of the socket
MessageEv(m) == [name |-> "message", m |-> m]
PreviousMessagesEv(r) == [name |-> "previousMessages", response |-> r]
MessagesReadEv(userId, messageIds, timestamp) ==
  [name |-> "messagesRead", userId |-> userId, messageIds |-> messageIds,
   timestamp |-> timestamp]
MessageReactionUpdateEv(messageId, reactions) ==
  [name |-> "messageReactionUpdate", messageId |-> messageId, reactions |-> reactions]
SessionEndedEv == [name |-> "session_ended"]
ErrorEv(rejected) == [name |-> "error", rejected |-> rejected]

\* a listener registered by setupEventListeners handles an event
Handle(s, ev) ==
  CASE ev.name = "message" -> OnMessage(s, ev.m)
    [] ev.name = "previousMessages" -> HandlePreviousMessages(s, ev.response)
    [] ev.name = "messagesRead" ->
         OnMessagesRead(s, ev.userId, ev.messageIds, ev.timestamp)
    [] ev.name = "messageReactionUpdate" ->
         OnMessageReactionUpdate(s, ev.messageId, ev.reactions)
    [] ev.name = "session_ended" -> OnSessionEnded(s)
    [] ev.name = "error" -> OnSocketError(s, ev.rejected)

\* socket.io calls every registered listener of the event, in turn
RECURSIVE Deliver(_, _, _)
Deliver(s, ev, n) ==
  IF n = 0 THEN s ELSE Deliver(Handle(s, ev), ev, n - 1)

Op(name) == [op |-> name, id |-> NoId, arg |-> "", hit |-> FALSE]
OpOn(name, i, a, h) == [op |-> name, id |-> i, arg |-> a, hit |-> h]

PlainMsg(i) == Msg(i, EmptyReactions, <<>>)

\* a candidate of a history batch or a live event: a message, or an object without _id
Candidates == {PlainMsg(i) : i \in MsgIds} \cup {EmptyObject}

RECURSIVE SeqsUpTo(_, _)
SeqsUpTo(S, n) ==
  IF n = 0 THEN {<<>>}
  ELSE LET shorter == SeqsUpTo(S, n - 1)
       IN shorter \cup {Append(q, x) : q \in {r \in shorter : Len(r) = n - 1}, x \in S}

OkResponses ==
  {[kind |-> "ok", messages |-> b, hasMore |-> h] :
     b \in SeqsUpTo(Candidates, MaxBatch), h \in BOOLEAN}

Responses ==
  OkResponses
  \cup {[kind |-> k, messages |-> <<>>, hasMore |-> FALSE] : k \in {"notArray", "notObject"}}

\* the reaction specification: messages 1..NumReactMsgs arrive with the reactions
\* the server holds for them; the user reacts to messages 1..NumTargets
ServerReactions ==
  {EmptyReactions, [s \in {"thumbs"} |-> <<"u2">>], [s \in {"thumbs"} |-> <<"u2", "u1">>]}

ReactCandidates == {Msg(i, r, <<>>) : i \in 1..NumReactMsgs, r \in ServerReactions}

Targets == 1..NumTargets

\* the read-receipt specification: messages 1..NumReadMsgs, receipts of every user
ReadTimes == 1..NumReadTimes

ReadCandidates ==
  {Msg(i, EmptyReactions, rd) : i \in 1..NumReadMsgs,
                                rd \in {<<>>, <<[userId |-> "u2", readAt |-> 1]>>}}

\* ------------------------------------------------------------- actions
\* ChatInput as mounted: nothing typed, nothing attached, nothing submitted
InitInput ==
  /\ submitLockRef = FALSE
  /\ lastSubmitRef = NoSubmit
  /\ inputValue = <<>>
  /\ files = <<>>
  /\ now = DuplicateWindowMs
  /\ submitCalls = <<>>

Init ==
  /\ messages = <<>>
  /\ rendered = <<>>
  /\ touched = {}
  /\ processedMessageIds = {}
  /\ hasMoreMessages = TRUE
  /\ error = NoError
  /\ loading = TRUE
  /\ loadingMessages = FALSE
  /\ initialLoadCompletedRef = FALSE
  /\ mountedRef = TRUE
  /\ roomId \in {NoRoom, TheRoom}
  /\ socketConnected = FALSE
  /\ listeners = 0
  /\ listenerMessagesEmpty = TRUE
  /\ connectionStatus = "checking"
  /\ setupCompleteRef = FALSE
  /\ socketInitializedRef = FALSE
  /\ initializingRef = FALSE
  /\ isInitialized = FALSE
  /\ messageProcessingRef = FALSE
  /\ cleanupInProgressRef = FALSE
  /\ setupRoomCalls = <<>>
  /\ InitInput
  /\ effects = <<>>
  /\ storeReplaced = FALSE
  /\ last = Op("init")

\* the hook mounted on the page of a room
InitRoom == Init /\ roomId = TheRoom

\* the hook on the page of a room at the moment a cleanup has set its guard and
\* has not finished.  cleanup never yields, so only a call made from inside a
\* running cleanup finds the guard set.
InitInFlight ==
  /\ messages = <<>>
  /\ rendered = <<>>
  /\ touched = {}
  /\ processedMessageIds = {}
  /\ hasMoreMessages = TRUE
  /\ error = NoError
  /\ loading = TRUE
  /\ loadingMessages = FALSE
  /\ initialLoadCompletedRef = FALSE
  /\ mountedRef = TRUE
  /\ roomId = TheRoom
  /\ socketConnected \in BOOLEAN
  /\ listeners \in 0..1
  /\ listenerMessagesEmpty = TRUE
  /\ connectionStatus = "checking"
  /\ setupCompleteRef = FALSE
  /\ socketInitializedRef = FALSE
  /\ initializingRef = FALSE
  /\ isInitialized = FALSE
  /\ messageProcessingRef = FALSE
  /\ cleanupInProgressRef = TRUE
  /\ setupRoomCalls = <<>>
  /\ InitInput
  /\ effects = <<>>
  /\ storeReplaced = FALSE
  /\ last = Op("init")

\* a re-render: the callbacks close over the current store
Render ==
  /\ mountedRef
  /\ Commit([Cur EXCEPT !.rendered = messages, !.touched = {}], Op("render"))

\* setupRoom registers the listeners; `fresh`: the callback was re-created by the
\* last render
RegisterListeners ==
  /\ listeners < MaxListeners
  /\ \E fresh \in BOOLEAN :
       Commit(SetupEventListeners(Cur, ~fresh), Op("setupEventListeners"))

\* hit: the id delivered is already in the store
MessageEvent(m) ==
  /\ listeners > 0
  /\ Commit(Deliver(Cur, MessageEv(m), listeners),
            OpOn("message", m._id, "", m._id \in Ids(messages)))

\* hit: a candidate is admitted whose id is already in the store
PreviousMessagesEvent(r) ==
  /\ listeners > 0
  /\ Commit(Deliver(Cur, PreviousMessagesEv(r), listeners),
            OpOn("previousMessages", NoId, r.kind,
                 Ids(FilterNew(r.messages, processedMessageIds).accepted)
                   \cap Ids(messages) # {}))

\* hit: the user has a reader entry on one of the messages named
MessagesReadEvent(userId, messageIds, timestamp) ==
  /\ listeners > 0
  /\ Commit(Deliver(Cur, MessagesReadEv(userId, messageIds, timestamp), listeners),
            OpOn("messagesRead", NoId, userId,
                 \E i \in DOMAIN messages :
                   messages[i]._id \in messageIds /\ HasReader(messages[i], userId)))

\* hit: the message is in the store and carries a reaction of the current user
\* that the delivered map does not
MessageReactionUpdateEvent(messageId, reactions) ==
  /\ listeners > 0
  /\ Commit(Deliver(Cur, MessageReactionUpdateEv(messageId, reactions), listeners),
            OpOn("messageReactionUpdate", messageId, "",
                 \E i \in DOMAIN messages :
                   /\ messages[i]._id = messageId
                   /\ \E sym \in DOMAIN messages[i].reactions :
                        /\ CurrentUser \in Range(messages[i].reactions[sym])
                        /\ CurrentUser \notin Range(UsersOf([reactions |-> reactions], sym))))

\* hit: the store held messages when the event arrived
SessionEndedEvent ==
  /\ listeners > 0
  /\ Commit(Deliver(Cur, SessionEndedEv, listeners),
            OpOn("session_ended", NoId, "", messages # <<>>))

SocketErrorEvent ==
  /\ listeners > 0
  /\ \E rejected \in BOOLEAN :
       Commit(Deliver(Cur, ErrorEv(rejected), listeners), Op("error"))

\* hit: the current user is already under the symbol on that message
UserPresent(messageId, reaction) ==
  \E i \in DOMAIN messages :
    messages[i]._id = messageId /\ CurrentUser \in Range(UsersOf(messages[i], reaction))

ReactionAddCall(messageId, reaction, emitOk) ==
  /\ reaction \in Symbols
  /\ Commit(HandleReactionAdd(Cur, messageId, reaction, emitOk),
         OpOn("reactionAdd", messageId, reaction, UserPresent(messageId, reaction)))

ReactionRemoveCall(messageId, reaction, emitOk) ==
  /\ reaction \in Symbols
  /\ Commit(HandleReactionRemove(Cur, messageId, reaction, emitOk),
         OpOn("reactionRemove", messageId, reaction, UserPresent(messageId, reaction)))

\* hit: the store was not empty
CleanupCall(reason) ==
  /\ reason \in CleanupArgs
  /\ Commit(Cleanup(Cur, reason), OpOn("cleanup", NoId, reason, messages # <<>>))

RetryCall ==
  /\ TRUE
  /\ Commit(RetryMessageLoad(Cur), Op("retryMessageLoad"))

SocketConnect ==
  /\ ~socketConnected
  /\ Commit(HandleConnect([Cur EXCEPT !.socketConnected = TRUE]), Op("connect"))

SocketDisconnect ==
  /\ socketConnected
  /\ Commit(HandleDisconnect([Cur EXCEPT !.socketConnected = FALSE]), Op("disconnect"))

SocketReconnect ==
  /\ ~socketConnected
  /\ Commit(HandleReconnectSuccess([Cur EXCEPT !.socketConnected = TRUE]), Op("reconnect"))

Unmount ==
  /\ mountedRef
  /\ Commit(UnmountTeardown(Cur), Op("unmount"))

\* the mount effect runs: at mount, and again when one of its dependencies changes
MountEffectRun ==
  /\ mountedRef
  /\ Len(setupRoomCalls) < MaxSetupRoomCalls
  /\ Commit(Started(MountEffect(Cur), "mount"), Op("mountEffect"))

\* the socket connects; the setupRoom() that handleConnect calls stays in flight
ConnectEvent ==
  /\ ~socketConnected
  /\ Len(setupRoomCalls) < MaxSetupRoomCalls
  /\ Commit(Started(HandleConnect([Cur EXCEPT !.socketConnected = TRUE]), "connect"),
            Op("connect"))

\* the socket reconnects; the setupRoom() of handleReconnectSuccess stays in flight
ReconnectEvent ==
  /\ ~socketConnected
  /\ Len(setupRoomCalls) < MaxSetupRoomCalls
  /\ Commit(Started(HandleReconnectSuccess([Cur EXCEPT !.socketConnected = TRUE]),
                    "reconnect"),
            Op("reconnect"))

\* a setupRoom() in flight settles, in any order; hit: it resolved
SetupRoomSettles ==
  /\ setupRoomCalls # <<>>
  /\ \E k \in DOMAIN setupRoomCalls, ok \in BOOLEAN, fresh \in BOOLEAN :
       /\ ok => listeners < MaxListeners
       /\ LET caller == setupRoomCalls[k]
              s0 == [Cur EXCEPT !.setupRoomCalls = RemoveAt(@, k)]
              s1 == IF ok THEN SetupRoomDone(s0, fresh) ELSE s0
          IN Commit(AfterSetupRoom(s1, caller, ok),
                    OpOn("setupRoomSettled", NoId, caller, ok))

\* what the user types and attaches
Texts == {<<>>, <<" ">>, <<"a">>, <<"a", " ">>, <<"b">>}
FileNames == {"f.png", "g.png"}

CommitInput(s, op) ==
  /\ submitLockRef' = s.submitLockRef
  /\ lastSubmitRef' = s.lastSubmitRef
  /\ inputValue' = s.inputValue
  /\ files' = s.files
  /\ now' = s.now
  /\ submitCalls' = s.submitCalls
  /\ effects' = <<>>
  /\ storeReplaced' = FALSE
  /\ last' = op
  /\ UNCHANGED hookVars

\* the user edits the text of the input
TypeText(v) ==
  /\ v # inputValue
  /\ CommitInput([InputCur EXCEPT !.inputValue = v], Op("type"))

\* handleFileSelect: setFiles((prev) => [...prev, preview])
SelectFile(f) ==
  /\ Len(files) < MaxFiles
  /\ CommitInput([InputCur EXCEPT !.files = Append(@, f)], Op("selectFile"))

\* the elements of a other than f, in order
RECURSIVE Without(_, _)
Without(a, f) ==
  IF a = <<>> THEN <<>>
  ELSE IF Head(a) = f THEN Without(Tail(a), f)
  ELSE <<Head(a)>> \o Without(Tail(a), f)

\* onRemove: setFiles((prev) => prev.filter((p) => p.name !== f.name))
RemoveFile(f) ==
  /\ \E i \in DOMAIN files : files[i] = f
  /\ CommitInput([InputCur EXCEPT !.files = Without(@, f)], Op("removeFile"))

\* time passes
Tick ==
  /\ now < DuplicateWindowMs + MaxTicks * TickMs
  /\ CommitInput([InputCur EXCEPT !.now = @ + TickMs], Op("tick"))

\* handleSubmit is called (send button, Enter); hit: the lock was held
HandleSubmitCall ==
  /\ Len(submitCalls) < MaxSubmitCalls
  /\ CommitInput(HandleSubmit(InputCur),
                 OpOn("handleSubmit", NoId,
                      IF Len(HandleSubmit(InputCur).submitCalls) > Len(submitCalls)
                      THEN "dispatched" ELSE "",
                      submitLockRef))

\* a submit() in flight settles, in any order; hit: it resolved
SubmitSettles ==
  /\ submitCalls # <<>>
  /\ \E k \in DOMAIN submitCalls, ok \in BOOLEAN :
       CommitInput(AfterSubmit(InputCur, k, ok), OpOn("submitSettled", NoId, "", ok))

\* ------------------------------------------------------------- specifications
\* admission, history and cleanup
Next ==
  \/ RegisterListeners
  \/ \E m \in Candidates : MessageEvent(m)
  \/ \E r \in Responses : PreviousMessagesEvent(r)
  \/ SessionEndedEvent
  \/ \E reason \in CleanupArgs : CleanupCall(reason)
  \/ RetryCall
  \/ SocketConnect
  \/ SocketDisconnect
  \/ SocketReconnect

Spec == Init /\ [][Next]_vars

\* admission alone: live messages and history batches, with the calls that clear
\* the Seen-ID Set
NextBatch ==
  \/ RegisterListeners
  \/ \E m \in Candidates : MessageEvent(m)
  \/ \E r \in Responses : PreviousMessagesEvent(r)
  \/ \E reason \in CleanupArgs : CleanupCall(reason)
  \/ RetryCall

SpecBatch == InitRoom /\ [][NextBatch]_vars

\* the reaction coordinator, with the renders between its calls
NextReact ==
  \/ Render
  \/ RegisterListeners
  \/ \E m \in ReactCandidates : MessageEvent(m)
  \/ \E i \in Targets, r \in ServerReactions : MessageReactionUpdateEvent(i, r)
  \/ \E i \in Targets, sym \in Symbols, emitOk \in BOOLEAN : ReactionAddCall(i, sym, emitOk)
  \/ \E i \in Targets, sym \in Symbols, emitOk \in BOOLEAN : ReactionRemoveCall(i, sym, emitOk)
  \/ SocketConnect
  \/ SocketDisconnect

SpecReact == InitRoom /\ [][NextReact]_vars

\* read receipts
NextRead ==
  \/ RegisterListeners
  \/ \E m \in ReadCandidates : MessageEvent(m)
  \/ \E u \in Users, ids \in SUBSET (1..NumReadMsgs), ts \in ReadTimes :
       MessagesReadEvent(u, ids, ts)

SpecRead == InitRoom /\ [][NextRead]_vars

\* the room lifecycle: the three callers of setupRoom, its settling, cleanup and
\* unmount, with the events that reach the listeners
NextLife ==
  \/ MountEffectRun
  \/ ConnectEvent
  \/ SocketDisconnect
  \/ ReconnectEvent
  \/ SetupRoomSettles
  \/ \E reason \in CleanupArgs : CleanupCall(reason)
  \/ Unmount
  \/ MessageEvent(PlainMsg(1))
  \/ SessionEndedEvent
  \/ SocketErrorEvent

SpecLife == InitRoom /\ [][NextLife]_vars

\* cleanup called while the guard of a cleanup is set
NextGuard ==
  \/ RegisterListeners
  \/ \E m \in Candidates : MessageEvent(m)
  \/ \E reason \in CleanupArgs : CleanupCall(reason)
  \/ Unmount

SpecGuard == InitInFlight /\ [][NextGuard]_vars

\* the message input: typing, attaching, submitting, the clock
NextInput ==
  \/ \E v \in Texts : TypeText(v)
  \/ \E f \in FileNames : SelectFile(f)
  \/ \E f \in FileNames : RemoveFile(f)
  \/ Tick
  \/ HandleSubmitCall
  \/ SubmitSettles

SpecInput == InitRoom /\ [][NextInput]_vars

\* read receipts among reactions and history: the messages 1..NumTargets arrive
\* live or in a batch of their own, are read, reacted to and delivered again after
\* a retry
ReaderResponses ==
  {[kind |-> "ok", messages |-> <<PlainMsg(i)>>, hasMore |-> FALSE] : i \in Targets}

\* a rollback may leave an object without id in the store and a retry lets the
\* message in again: deliveries stop at one object more than there are messages
ReadersMessageEvent(i) ==
  /\ Len(messages) <= NumTargets
  /\ MessageEvent(PlainMsg(i))

ReadersPreviousMessagesEvent(r) ==
  /\ Len(messages) <= NumTargets
  /\ PreviousMessagesEvent(r)

NextReaders ==
  \/ Render
  \/ RegisterListeners
  \/ \E i \in Targets : ReadersMessageEvent(i)
  \/ \E r \in ReaderResponses : ReadersPreviousMessagesEvent(r)
  \/ RetryCall
  \/ \E u \in Users : MessagesReadEvent(u, Targets, 1)
  \/ \E i \in Targets : MessageReactionUpdateEvent(i, EmptyReactions)
  \/ \E i \in Targets, emitOk \in BOOLEAN : ReactionAddCall(i, "thumbs", emitOk)
  \/ \E i \in Targets, emitOk \in BOOLEAN : ReactionRemoveCall(i, "thumbs", emitOk)
  \/ SocketConnect
  \/ SocketDisconnect

SpecReaders == InitRoom /\ [][NextReaders]_vars

\* ------------------------------------------------------------- model sanity
\* a store object not replaced since the last render is the object of that render
TouchedSound ==
  \A i \in DOMAIN messages :
    (messages[i]._id # NoId /\ messages[i]._id \notin touched)
      => \E j \in DOMAIN rendered : rendered[j] = messages[i]

\* ------------------------------------------------------------- claims: admission
IsSorted(seq) ==
  \A i, j \in DOMAIN seq : i < j => SortKey(seq[i]) <= SortKey(seq[j])

\* the state after the registered listeners have handled a history response
AfterPreviousMessages(r) ==
  Deliver(Cur, PreviousMessagesEv(r), listeners)

\* C1: the Message Store holds each message id at most once, in every reachable
\* state: after live messages, history batches, cleanups of any reason, retries,
\* disconnects and reconnects, with ids delivered again at will.
C1_UniqueIds ==
  \A i, j \in DOMAIN messages :
    (i # j /\ messages[i]._id # NoId) => messages[i]._id # messages[j]._id

\* an id the store already held has just been delivered again, live or in a batch
\* that admitted it (the Seen-ID Set had been cleared); several messages are stored
C1_Witness ==
  /\ last.op \in {"message", "previousMessages"}
  /\ last.hit
  /\ Len(messages) > 1

\* C2: after every admission, a live message accepted or a history batch
\* processed, the Message Store is sorted ascending by timestamp, an absent
\* timestamp counting as epoch.
C2_SortedAfterAdmission ==
  (\/ last.op = "message" /\ storeReplaced
   \/ last.op = "previousMessages" /\ last.arg = "ok")
    => IsSorted(messages)

\* the candidates of a batch that admission accepts: those with an id that is not
\* in the Seen-ID Set and does not occur earlier in the batch
KthSmallest(I, k) == CHOOSE i \in I : Cardinality({j \in I : j <= i}) = k

AtIndices(seq, I) == [k \in 1..Cardinality(I) |-> seq[KthSmallest(I, k)]]

NewCandidates(C, seen) ==
  AtIndices(C, {i \in DOMAIN C :
                  /\ C[i]._id # NoId
                  /\ C[i]._id \notin seen
                  /\ \A j \in 1..(i - 1) : C[j]._id # C[i]._id})

\* seq in ascending timestamp order, ties kept in the order they have in seq
StableRank(seq, i) ==
  Cardinality({j \in DOMAIN seq :
                 \/ SortKey(seq[j]) < SortKey(seq[i])
                 \/ SortKey(seq[j]) = SortKey(seq[i]) /\ j <= i})

AscendingStable(seq) ==
  [p \in 1..Len(seq) |-> seq[CHOOSE i \in DOMAIN seq : StableRank(seq, i) = p]]

\* seq with one entry per id: at the place of the id's first entry, the id's last entry
Collapsed(seq) ==
  LET firsts == {j \in DOMAIN seq : \A k \in 1..(j - 1) : seq[k]._id # seq[j]._id}
      lastOf(j) == CHOOSE k \in DOMAIN seq :
                     /\ seq[k]._id = seq[j]._id
                     /\ \A l \in DOMAIN seq : seq[l]._id = seq[j]._id => l <= k
  IN AtIndices([j \in DOMAIN seq |-> seq[lastOf(j)]], firsts)

C10_DisconnectThenManual ==
  [][(/\ last.op = "cleanup"
      /\ last.arg = CLEANUP_REASONS.DISCONNECT
      /\ mountedRef
      /\ roomId = TheRoom
      /\ CleanupCall(CLEANUP_REASONS.MANUAL))
       => (/\ messages' = <<>>
           /\ processedMessageIds' = {}
           /\ error' \in {NoError, NullError})]_vars

\* ------------------------------------------------------------- claims: reactions
NoEmit(es) == \A k \in DOMAIN es : es[k].kind # "emit"

ReactionsOf(seq, messageId) == seq[FirstIndex(seq, messageId)].reactions

\* C4: after a messageReactionUpdate {messageId, reactions} is ingested for a
\* message in the store, that message's reactions are the delivered map exactly,
\* whatever was applied locally before; every other field of it and every other
\* message is unchanged.
C4_ServerWins ==
  [][\A i \in Targets, r \in ServerReactions :
       (/\ mountedRef
        /\ i \in Ids(messages)
        /\ MessageReactionUpdateEvent(i, r))
         => /\ Len(messages') = Len(messages)
            /\ \A k \in DOMAIN messages :
                 IF messages[k]._id = i
                 THEN /\ messages'[k].reactions = r
                      /\ messages'[k]._id = messages[k]._id
                      /\ messages'[k].timestamp = messages[k].timestamp
                      /\ messages'[k].readers = messages[k].readers
                 ELSE messages'[k] = messages[k]]_vars

\* a delivered map has just replaced a reactions map that held a reaction of the
\* current user the server does not have
C4_Witness ==
  /\ last.op = "messageReactionUpdate"
  /\ last.hit
  /\ last.id \in Ids(messages)
  /\ storeReplaced

\* C5: if the emit of a reaction add fails after the optimistic update, the
\* message's reactions afterwards are what they were in the store immediately
\* before the add call, whatever was ingested before the call.
C5_FullRollback ==
  [][\A i \in Targets, sym \in Symbols :
       (/\ socketConnected
        /\ i \in Ids(messages)
        /\ ~UserPresent(i, sym)
        /\ ReactionAddCall(i, sym, FALSE))
         => /\ i \in Ids(messages')
            /\ ReactionsOf(messages', i) = ReactionsOf(messages, i)]_vars

\* C6: a reaction add called while the transport is not connected mutates nothing
\* in the store and emits no intent.
C6_NotConnectedNoMutation ==
  [][\A i \in Targets, sym \in Symbols, emitOk \in BOOLEAN :
       (/\ ~socketConnected
        /\ ReactionAddCall(i, sym, emitOk))
         => /\ messages' = messages
            /\ NoEmit(effects')]_vars

\* C7: when the current user's id is already under the symbol, add is a no-op:
\* the store is unchanged, the id is not there twice, and no intent is emitted.
C7_AddWhenPresentIsNoOp ==
  [][\A i \in Targets, sym \in Symbols :
       (/\ socketConnected
        /\ UserPresent(i, sym)
        /\ ReactionAddCall(i, sym, TRUE))
         => /\ messages' = messages
            /\ Cardinality({k \in DOMAIN UsersOf(messages'[FirstIndex(messages', i)], sym) :
                              UsersOf(messages'[FirstIndex(messages', i)], sym)[k] = CurrentUser}) = 1
            /\ NoEmit(effects')]_vars

\* C9 (as claimed): updateSingleMessage whose transform yields a message equal in
\* value to the existing one, such as a reaction delta carrying the reactions the
\* message has, returns the original collection; with an id not in the store the
\* call is a no-op.
C9_EqualValueKeepsIdentity ==
  [][\A i \in Targets, r \in ServerReactions :
       (/\ mountedRef
        /\ MessageReactionUpdateEvent(i, r)
        /\ (i \in Ids(messages) => ReactionsOf(messages, i) = r))
         => /\ messages' = messages
            /\ ~storeReplaced']_vars

\* C9 (amended): updateSingleMessage whose transform returns the message object it
\* was given, as add does when the user's id is already there, returns the
\* original collection; a transform that builds a new object, as the reaction
\* delta does, gives a new collection even when the new message equals the old
\* one in value; with an id not in the store the call is a no-op.
C9_SameObjectKeepsIdentity ==
  [][/\ \A i \in Targets, sym \in Symbols :
          (socketConnected /\ UserPresent(i, sym) /\ ReactionAddCall(i, sym, TRUE))
            => (messages' = messages /\ ~storeReplaced')
     /\ \A i \in Targets, r \in ServerReactions :
          (mountedRef /\ i \in Ids(messages) /\ MessageReactionUpdateEvent(i, r))
            => storeReplaced'
     /\ \A i \in Targets, r \in ServerReactions, sym \in Symbols, emitOk \in BOOLEAN :
          (/\ i \notin Ids(messages)
           /\ \/ MessageReactionUpdateEvent(i, r)
              \/ ReactionAddCall(i, sym, emitOk)
              \/ ReactionRemoveCall(i, sym, emitOk))
            => (messages' = messages /\ ~storeReplaced')]_vars

\* an add for a user already under the symbol has been emitted and has left the
\* collection as it was
C9_Witness ==
  /\ last.op = "reactionAdd"
  /\ last.hit
  /\ socketConnected
  /\ ~storeReplaced
  /\ ~NoEmit(effects)

\* ------------------------------------------------------------- claims: read receipts
\* the state after the registered listeners have handled a read receipt
AfterMessagesRead(userId, messageIds, timestamp) ==
  Deliver(Cur, MessagesReadEv(userId, messageIds, timestamp), listeners)

\* C8: no messagesRead ingestion adds a second readers entry for a user: every
\* message holds at most one entry per user, and a receipt for a user already
\* recorded on a message leaves that message unchanged.
C8_OneReaderEntryPerUser ==
  /\ \A k \in DOMAIN messages :
       \A a, b \in DOMAIN messages[k].readers :
         messages[k].readers[a].userId = messages[k].readers[b].userId => a = b
  /\ \A u \in Users, ids \in SUBSET (1..NumReadMsgs), ts \in ReadTimes :
       listeners > 0
         => LET after == AfterMessagesRead(u, ids, ts).messages
            IN /\ Len(after) = Len(messages)
               /\ \A k \in DOMAIN messages :
                    HasReader(messages[k], u) => after[k] = messages[k]

\* a receipt has just named a message that already held an entry of that user,
\* and a message holds the entries of both users
C8_Witness ==
  /\ last.op = "messagesRead"
  /\ last.hit
  /\ \E k \in DOMAIN messages : Len(messages[k].readers) = Cardinality(Users)

\* ------------------------------------------------------------- claims: lifecycle
\* C11: while a setupRoom() started by the mount effect, by handleConnect or by
\* handleReconnectSuccess is in flight, no second one is started, and setupRoom()
\* is never called while the controller is Initializing or Ready.
C11_OneSetupRoomAtATime ==
  [][Len(setupRoomCalls') > Len(setupRoomCalls)
       => (setupRoomCalls = <<>> /\ ~setupCompleteRef)]_vars

\* C12: each live-event kind has at most one registered listener at every moment,
\* across connect, disconnect, reconnect, cleanup and repeated room setup.
C12_OneListenerPerKind == listeners <= 1

\* C14: once the liveness flag is false, no transport event, connection event or
\* pending continuation (the rejection of a setupRoom() started before unmount
\* included) changes the Message Store, the error, the loading flags or the
\* connection status.
C14_NoChangeAfterUnmount ==
  [][~mountedRef
       => /\ messages' = messages
          /\ error' = error
          /\ loading' = loading
          /\ loadingMessages' = loadingMessages
          /\ connectionStatus' = connectionStatus]_vars

\* C13: a message id in the Message Store stays in it until a manual cleanup: no
\* reaction add, remove or rollback, reaction delta, live message or render
\* removes it.
C13_IdsStayInStore ==
  [][\A i \in Ids(messages) \ {NoId} : i \in Ids(messages')]_vars

\* C15: once hasMoreMessages is false it stays false until retryMessageLoad: no
\* history batch sets it back to true, also after an ingestion error set it to
\* false.
C15_HasMoreStaysFalse ==
  [][(~hasMoreMessages /\ hasMoreMessages') => last'.op = "retryMessageLoad"]_vars

\* C16: with the hook mounted on a room, cleanup with a reason of CLEANUP_REASONS
\* other than RECONNECT leaves no listener registered, also when none was, and
\* cleanup with RECONNECT leaves the registrations as they were.
C16_ListenersAfterCleanup ==
  [][\A reason \in {CLEANUP_REASONS.DISCONNECT, CLEANUP_REASONS.MANUAL,
                    CLEANUP_REASONS.RECONNECT, CLEANUP_REASONS.UNMOUNT,
                    CLEANUP_REASONS.ERROR} :
       (/\ mountedRef
        /\ roomId = TheRoom
        /\ CleanupCall(reason))
         => IF reason = CLEANUP_REASONS.RECONNECT
            THEN listeners' = listeners
            ELSE listeners' = 0]_vars

\* C17: cleanup with reason DISCONNECT leaves the Message Store and the Seen-ID
\* Set as they were and sets the connection-lost error; the Seen-ID Set is
\* emptied only by a manual cleanup or by retryMessageLoad.
C17_DisconnectPreserves ==
  [][/\ (/\ mountedRef
         /\ roomId = TheRoom
         /\ CleanupCall(CLEANUP_REASONS.DISCONNECT))
          => /\ messages' = messages
             /\ processedMessageIds' = processedMessageIds
             /\ error' = ErrConnectionLost
     /\ (processedMessageIds # {} /\ processedMessageIds' = {})
          => \/ last'.op = "retryMessageLoad"
             \/ last'.op = "cleanup" /\ last'.arg \in {CLEANUP_REASONS.MANUAL, "MANUAL"}]_vars

C19_MalformedBatchRejected ==
  \A r \in Responses \ OkResponses :
    listeners > 0
      => LET after == AfterPreviousMessages(r)
         IN /\ after.messages = messages
            /\ after.processedMessageIds = processedMessageIds
            /\ after.error = ErrProcessing
            /\ ~after.hasMoreMessages
            /\ ~after.loadingMessages
            /\ ~after.messageProcessingRef
            /\ \A r2 \in OkResponses :
                 LET then == Deliver(after, PreviousMessagesEv(r2), listeners)
                     direct == AfterPreviousMessages(r2)
                 IN /\ then.messages = direct.messages
                    /\ then.processedMessageIds = direct.processedMessageIds
                    /\ then.hasMoreMessages = direct.hasMoreMessages

\* a malformed history event has just been handled with messages in the store
C19_Witness ==
  /\ last.op = "previousMessages"
  /\ last.arg \in {"notArray", "notObject"}
  /\ error = ErrProcessing
  /\ ~hasMoreMessages
  /\ messages # <<>>

\* ------------------------------------------------------------- claims: ChatInput
\* C20: at most one submission is in flight at any time: while a submit
\* dispatched by handleSubmit has not settled, the lock is held and every further
\* handleSubmit call, for text or file, dispatches nothing.
C20_OneSubmissionInFlight ==
  /\ Len(submitCalls) <= 1
  /\ submitCalls # <<>>
       => /\ submitLockRef
          /\ HandleSubmit(InputCur) = InputCur

\* handleSubmit has just been called with something to send while a submit was in
\* flight, and nothing more is in flight
C20_Witness ==
  /\ last.op = "handleSubmit"
  /\ last.hit
  /\ Len(submitCalls) = 1
  /\ Trim(inputValue) # <<>>
  /\ Trim(inputValue) # submitCalls[1].content

\* what a handleSubmit call in this state dispatches: one payload more in flight
Dispatches == Len(HandleSubmit(InputCur).submitCalls) = Len(submitCalls) + 1

\* the recorded submission is less than the window old
WithinWindow == now - lastSubmitRef.time < DuplicateWindowMs

\* C21: with the lock free, a text submission with the same trimmed content as
\* the last recorded text submission, or a file submission with the same file
\* name as the last recorded file submission, made less than 700 ms after it, is
\* not dispatched; one made 700 ms or more later, or with a different content or
\* file name, or of the other type, is dispatched.
C21_DuplicateGuard ==
  ~submitLockRef =>
    /\ files # <<>> =>
         (Dispatches <=> ~(/\ lastSubmitRef.type = "file"
                           /\ lastSubmitRef.fileName = files[1]
                           /\ WithinWindow))
    /\ (files = <<>> /\ Trim(inputValue) # <<>>) =>
         (Dispatches <=> ~(/\ lastSubmitRef.type = "text"
                           /\ lastSubmitRef.content = Trim(inputValue)
                           /\ WithinWindow))

\* handleSubmit has just suppressed a text whose raw value differs from the
\* recorded one only by white space
C21_Witness ==
  /\ last.op = "handleSubmit"
  /\ ~last.hit
  /\ last.arg = ""
  /\ files = <<>>
  /\ inputValue = <<"a", " ">>
  /\ lastSubmitRef.type = "text"
  /\ lastSubmitRef.content = <<"a">>
  /\ WithinWindow

\* ------------------------------------------------------------- claims: session end
\* C22: on a session_ended event while mounted with a room targeted, full cleanup
\* is performed before logout and navigation away: afterwards the store is empty,
\* the Seen-ID Set is empty and all listeners are detached; logout comes before
\* the redirect, and the leaveRoom of the cleanup before both.
C22_SessionEndedFullCleanup ==
  [][(last'.op = "session_ended" /\ mountedRef /\ roomId # NoRoom)
       => /\ messages' = <<>>
          /\ processedMessageIds' = {}
          /\ listeners' = 0
          /\ \E i, j \in DOMAIN effects' :
               /\ i < j
               /\ effects'[i] = Call("logout")
               /\ effects'[j] = Call("router.replace")
               /\ \A k \in 1..(i - 1) : effects'[k] # Call("router.replace")
               /\ socketConnected
                    => \E k \in 1..(i - 1) : effects'[k] = Emit("leaveRoom", NoId, "", "")]_vars

\* a session_ended event has arrived with messages in the store, and the user has
\* been logged out
C22_Witness ==
  /\ last.op = "session_ended"
  /\ last.hit
  /\ messages = <<>>
  /\ Call("logout") \in Range(effects)

\* ------------------------------------------------------------- claims: remove
\* C23: remove(messageId, symbol) while connected, its intent going out, leaves
\* the current user's id absent from that symbol's set and emits one "remove"
\* intent whether or not the id was present before; applying it twice gives the
\* same store contents as applying it once, and it changes no other symbol's set
\* and no other message.
C23_RemoveIdempotent ==
  [][\A i \in Targets, sym \in Symbols :
       (/\ socketConnected
        /\ ReactionRemoveCall(i, sym, TRUE))
         => /\ effects' = <<Emit("messageReaction", i, sym, "remove")>>
            /\ Len(messages') = Len(messages)
            /\ \A k \in DOMAIN messages :
                 IF messages[k]._id = i
                 THEN /\ CurrentUser \notin Range(UsersOf(messages'[k], sym))
                      /\ messages'[k]._id = i
                      /\ messages'[k].readers = messages[k].readers
                      /\ \A other \in Symbols \ {sym} :
                           UsersOf(messages'[k], other) = UsersOf(messages[k], other)
                 ELSE messages'[k] = messages[k]
            /\ LET once == HandleReactionRemove(Cur, i, sym, TRUE)
               IN /\ once.messages = messages'
                  /\ HandleReactionRemove(once, i, sym, TRUE).messages = once.messages]_vars

\* remove has just taken the user out of one symbol of a message that carries the
\* user under another symbol too
C23_Witness ==
  /\ last.op = "reactionRemove"
  /\ last.hit
  /\ Emit("messageReaction", last.id, last.arg, "remove") \in Range(effects)
  /\ \E k \in DOMAIN messages :
       /\ messages[k]._id = last.id
       /\ CurrentUser \notin Range(UsersOf(messages[k], last.arg))
       /\ \E other \in Symbols \ {last.arg} : CurrentUser \in Range(UsersOf(messages[k], other))

\* ------------------------------------------------------------- claims: reconnect
\* C24: whenever a reconnect success event is delivered while mounted with a room
\* targeted, setupRoom() is invoked again and the error state is cleared; with no
\* room targeted setupRoom() is not invoked; the store and the Seen-ID Set are
\* left unchanged by the disconnect and reconnect handlers themselves.
C24_ReconnectSetsUpRoomAgain ==
  [][/\ (last'.op = "reconnect" /\ mountedRef)
          => /\ roomId # NoRoom
                  => (effects' = <<Call("setupRoom")>> /\ error' = NoError)
             /\ roomId = NoRoom => Call("setupRoom") \notin Range(effects')
     /\ last'.op \in {"reconnect", "disconnect"}
          => /\ messages' = messages
             /\ processedMessageIds' = processedMessageIds
             /\ ~storeReplaced']_vars

\* a reconnect has been handled in a room whose store and Seen-ID Set are filled
C24_Witness ==
  /\ last.op = "reconnect"
  /\ roomId # NoRoom
  /\ Call("setupRoom") \in Range(effects)
  /\ error = NoError
  /\ messages # <<>>
  /\ processedMessageIds # {}

\* ------------------------------------------------------------- claims: initial load
\* C25: the first history batch received after room entry, and only that one, is
\* flagged as the initial load and sets the initial-load latch, for every ordering
\* of live messages and history batches; once set, the latch stays set until
\* retryMessageLoad resets it.  A batch is flagged when the `messages` its
\* handler closes over is empty (listenerMessagesEmpty).
C25_FirstBatchIsInitialLoad ==
  [][/\ (last'.op = "previousMessages" /\ last'.arg = "ok" /\ mountedRef)
          => /\ listenerMessagesEmpty <=> ~initialLoadCompletedRef
             /\ initialLoadCompletedRef'
     /\ (initialLoadCompletedRef /\ ~initialLoadCompletedRef')
          => last'.op = "retryMessageLoad"]_vars

\* ------------------------------------------------------------- claims: store invariants
\* C26: in every reachable state every message id in the Message Store is also in
\* the Seen-ID Set, across cleanups of every reason, retries and reconnects.
C26_StoreIdsAreSeen ==
  \A i \in Ids(messages) \ {NoId} : i \in processedMessageIds

\* C27: every element of the Message Store has a non-empty id in every reachable
\* state, including after a failed reaction add or remove whose rollback snapshot
\* lookup finds no message with that id.
C27_NonEmptyIds ==
  \A k \in DOMAIN messages : messages[k]._id # NoId

\* C28: the readers of a message never lose an entry while the message stays in
\* the store: no reaction add, remove or rollback, reaction delta or history batch
\* removes a reader recorded by an earlier messagesRead event.
C28_ReadersNeverLost ==
  [][\A k \in DOMAIN messages :
       (messages[k]._id # NoId /\ messages[k]._id \in Ids(messages'))
         => Range(messages[k].readers)
              \subseteq Range(messages'[FirstIndex(messages', messages[k]._id)].readers)]_vars

\* ------------------------------------------------------------- claims: submit lock
\* C29: the submission lock is released after every handleSubmit call that
\* acquired it: with nothing in flight the lock is free, whether the dispatch
\* resolved or threw; a call leaves the lock held exactly when it dispatched, so
\* not when it was suppressed as a duplicate or had nothing to send; and every
\* settling of a dispatch releases the lock.
C29_LockReleased ==
  /\ submitCalls = <<>>
       => /\ ~submitLockRef
          /\ HandleSubmit(InputCur).submitLockRef <=> Dispatches
  /\ \A k \in DOMAIN submitCalls, ok \in BOOLEAN :
       ~AfterSubmit(InputCur, k, ok).submitLockRef

\* a dispatch has just thrown: the text is still in the input, nothing is in
\* flight and the lock is free
C29_Witness ==
  /\ last.op = "submitSettled"
  /\ ~last.hit
  /\ submitCalls = <<>>
  /\ Trim(inputValue) # <<>>
  /\ ~submitLockRef

====
